---- MODULE Spec2Model ----
(***************************************************************************)
(* Model of index.js of ccda-bb: the section dispatcher gen(), the whole   *)
(* document assembler genWholeCCDA() and the module's exports.             *)
(*                                                                         *)
(* JavaScript values are records [t, props, tag]: t is the type, props the *)
(* ordered own properties of an object (insertion order, which is the      *)
(* order for-in and Object.keys enumerate string keys in), tag the         *)
(* identity of a leaf value.                                               *)
(***************************************************************************)
EXTENDS Integers, Sequences, FiniteSets, TLC

VARIABLES
    moduleExports,  \* module.exports
    pc,             \* position in the module body / genWholeCCDA / gen
    passed,         \* the record as the caller wrote it, before the call
    record,         \* the caller's record object, as it is now
    meta,           \* var meta
    data,           \* the parameter data after the unwrap
    children,       \* children of every node of the document tree, in order
    calls,          \* calls made to the collaborators, in order
    gens,           \* invocations of gen, in order
    count_sections, \* var count_sections
    i,              \* loop variable of the section loop
    result,         \* value returned by the entry point that ran
    warnings        \* TemplateMismatch reports of the Template Filler

vars == <<moduleExports, pc, passed, record, meta, data, children, calls, gens,
          count_sections, i, result, warnings>>

(***************************************************************************)
(* Bounds of the model.                                                    *)
(***************************************************************************)
\* largest number of keys of an input record, the object it wraps included
MaxKeys == 2
\* largest number of TemplateMismatch reports in one assembly
MaxWarnings == 1

(***************************************************************************)
(* JavaScript values.                                                      *)
(***************************************************************************)
Undefined == [t |-> "undefined", props |-> <<>>, tag |-> <<>>]

Null == [t |-> "null", props |-> <<>>, tag |-> <<>>]

Obj(props) == [t |-> "object", props |-> props, tag |-> <<>>]

Fn(name, props) == [t |-> "function", props |-> props, tag |-> <<name>>]

Tag(src, sec) == [t |-> "tag", props |-> <<>>, tag |-> <<src, sec>>]

Prop(k, v) == [k |-> k, v |-> v]

Truthy(v) == v.t \notin {"undefined", "null"}

\* obj[key] / obj.key
Get(obj, key) ==
    IF \E n \in 1..Len(obj.props) : obj.props[n].k = key
    THEN LET n == CHOOSE n \in 1..Len(obj.props) : obj.props[n].k = key
         IN obj.props[n].v
    ELSE Undefined

\* a && b
And(a, b) == IF Truthy(a) THEN b ELSE a

Keys(obj) == {obj.props[n].k : n \in 1..Len(obj.props)}

(***************************************************************************)
(* The section registry.                                                   *)
(***************************************************************************)
\* a registry with payers and plan_of_care exchanged
sectionNamesSwapped ==
    [n \in 0..12 |->
        CASE n = 0 -> "null"
          [] n = 1 -> "demographics"
          [] n = 2 -> "allergies"
          [] n = 3 -> "encounters"
          [] n = 4 -> "immunizations"
          [] n = 5 -> "medications"
          [] n = 6 -> "plan_of_care"
          [] n = 7 -> "payers"
          [] n = 8 -> "problems"
          [] n = 9 -> "procedures"
          [] n = 10 -> "results"
          [] n = 11 -> "social_history"
          [] n = 12 -> "vitals"]

\* var sectionNames = {0: "null", 1: "demographics", ...}
sectionNames ==
    [n \in 0..12 |->
        CASE n = 0 -> "null"
          [] n = 1 -> "demographics"
          [] n = 2 -> "allergies"
          [] n = 3 -> "encounters"
          [] n = 4 -> "immunizations"
          [] n = 5 -> "medications"
          [] n = 6 -> "payers"
          [] n = 7 -> "plan_of_care"
          [] n = 8 -> "problems"
          [] n = 9 -> "procedures"
          [] n = 10 -> "results"
          [] n = 11 -> "social_history"
          [] n = 12 -> "vitals"]

\* Object.keys(sectionNames).length
sectionNamesLength == Cardinality(DOMAIN sectionNames)

\* index of the demographics entry: sectionNames[1]
DemographicsIndex == 1

\* a section loop that starts at the demographics entry
LoopStartAtDemographics == DemographicsIndex

\* first index of the section loop: for (var i = 2; ...)
LoopStart == 2

(***************************************************************************)
(* Collaborators. A call is logged as it is made; what the collaborator    *)
(* does with the node it is handed is its own business and is modelled     *)
(* from its contract.                                                      *)
(***************************************************************************)
Call(fn, template, d, CCD, parent) ==
    [fn |-> fn, template |-> template, data |-> d, CCD |-> CCD, parent |-> parent]

Node(name, from) == [node |-> name, from |-> from]

\* libCCDAGen.id(parent, identifiers)
IdCall(parent, identifiers) == Call("libCCDAGen.id", "", identifiers, FALSE, parent)

\* require('./lib/<section>.js')(data, codeSystems, CCD, xmlDoc)
Bespoke(section_name, d, CCD, xmlDoc) ==
    Call("./lib/" \o section_name \o ".js", "", d, CCD, xmlDoc)

\* js2xml.fillUsingTemplate(xmlDoc, data, sectionLevel.<template>)
Fill(xmlDoc, d, template) == Call("js2xml.fillUsingTemplate", template, d, FALSE, xmlDoc)

\* the key of the record a section level template reads its entries from
TemplateKey(template) ==
    CASE template = "allergiesSectionEntriesRequired" -> "allergies"
      [] template = "encountersSectionEntriesRequired" -> "encounters"
      [] template = "immunizationsSectionEntriesRequired" -> "immunizations"
      [] template = "medicationsSectionEntriesRequired" -> "medications"
      [] template = "planOfCareSectionEntriesRequired" -> "plan_of_care"
      [] template = "problemsSectionEntriesRequired" -> "problems"
      [] template = "proceduresSectionEntriesRequired" -> "procedures"
      [] OTHER -> ""

\* the sections with a generator of their own under ./lib
BespokeSections == {"demographics", "payers", "results", "social_history", "vitals"}

\* the section a collaborator call is for
CallSection(c) ==
    CASE c.fn = "js2xml.fillUsingTemplate" -> TemplateKey(c.template)
      [] c.fn = "./lib/demographics.js" -> "demographics"
      [] c.fn = "./lib/payers.js" -> "payers"
      [] c.fn = "./lib/results.js" -> "results"
      [] c.fn = "./lib/social_history.js" -> "social_history"
      [] c.fn = "./lib/vitals.js" -> "vitals"
      [] OTHER -> ""

\* the slice a Template Filler call has entries to fill from, if any
FillSlice(c) == Get(c.data, TemplateKey(c.template))

\* the nodes a collaborator call appends to the node it was handed;
\* mismatch: the Template Filler met a malformed item
Emitted(c, mismatch) ==
    IF c.fn = "libCCDAGen.id" THEN <<Node("id", c.data)>>
    ELSE IF c.fn = "js2xml.fillUsingTemplate"
    THEN IF Truthy(FillSlice(c))
         THEN <<Node(CallSection(c) \o (IF mismatch THEN " (partial)" ELSE ""), FillSlice(c))>>
         ELSE <<>>
    ELSE <<Node(CallSection(c), c.data)>>

\* whether a malformed item can be met by the call at all
CanMismatch(cs) ==
    /\ Len(cs) = 1
    /\ cs[1].fn = "js2xml.fillUsingTemplate"
    /\ Truthy(FillSlice(cs[1]))

(***************************************************************************)
(* gen(data, CCD, xmlDoc, section_name): the collaborator calls it makes.  *)
(***************************************************************************)
\* the chain of conditionals on section_name
genHandler(d, CCD, xmlDoc, section_name) ==
    IF section_name = "demographics"
    THEN <<Bespoke("demographics", d, CCD, xmlDoc)>>
    ELSE IF section_name = "allergies"
    THEN <<Fill(xmlDoc, d, "allergiesSectionEntriesRequired")>>
    ELSE IF section_name = "encounters"
    THEN <<Fill(xmlDoc, d, "encountersSectionEntriesRequired")>>
    ELSE IF section_name = "immunizations"
    THEN <<Fill(xmlDoc, d, "immunizationsSectionEntriesRequired")>>
    ELSE IF section_name = "medications"
    THEN <<Fill(xmlDoc, d, "medicationsSectionEntriesRequired")>>
    ELSE IF section_name = "payers"
    THEN <<Bespoke("payers", d, CCD, xmlDoc)>>
    ELSE IF section_name = "plan_of_care"
    THEN <<Fill(xmlDoc, d, "planOfCareSectionEntriesRequired")>>
    ELSE IF section_name = "problems"
    THEN <<Fill(xmlDoc, d, "problemsSectionEntriesRequired")>>
    ELSE IF section_name = "procedures"
    THEN <<Fill(xmlDoc, d, "proceduresSectionEntriesRequired")>>
    ELSE IF section_name = "results"
    THEN <<Bespoke("results", d, CCD, xmlDoc)>>
    ELSE IF section_name = "social_history"
    THEN <<Bespoke("social_history", d, CCD, xmlDoc)>>
    ELSE IF section_name = "vitals"
    THEN <<Bespoke("vitals", d, CCD, xmlDoc)>>
    ELSE <<>>

\* gen without the test of data
genNoGuard(d, CCD, xmlDoc, section_name) == genHandler(d, CCD, xmlDoc, section_name)

gen(d, CCD, xmlDoc, section_name) ==
    IF Truthy(d) THEN genHandler(d, CCD, xmlDoc, section_name) ELSE <<>>

\* the value gen returns
genReturn(d, xmlDoc, section_name) ==
    IF Truthy(d)
    THEN IF section_name \in BespokeSections
         THEN [t |-> "collaborator result", props |-> <<>>, tag |-> <<section_name>>]
         ELSE Undefined
    ELSE [t |-> "node", props |-> <<>>, tag |-> <<xmlDoc>>]

\* one invocation of gen, as logged
GenEntry(d, CCD, xmlDoc, section_name) ==
    [data |-> d, CCD |-> CCD, xmlDoc |-> xmlDoc, section_name |-> section_name]

(***************************************************************************)
(* genWholeCCDA(data): its pure parts.                                     *)
(***************************************************************************)
\* an unwrap that keeps the outer record
UnwrapNever(r) == r

\* if (data.data) { data = data.data; }
Unwrap(r) == IF Truthy(Get(r, "data")) THEN Get(r, "data") ELSE r

\* a count of the keys that are names of body sections only
RECURSIVE countSectionsRecognized(_)
countSectionsRecognized(props) ==
    IF props = <<>> THEN 0
    ELSE (IF \E n \in 2..12 : Head(props).k = sectionNames[n] THEN 1 ELSE 0)
         + countSectionsRecognized(Tail(props))

\* for (var sections in data) { if (sections !== "demographics") count_sections++; }
RECURSIVE countSections(_)
countSections(props) ==
    IF props = <<>> THEN 0
    ELSE (IF Head(props).k # "demographics" THEN 1 ELSE 0) + countSections(Tail(props))

\* the sections whose gen call is handed the whole data (the condition of the if in the loop)
WholeDataSections ==
    {"plan_of_care", "procedures", "encounters", "allergies", "medications",
     "immunizations", "problems"}

\* the two branches of the loop exchanged
LoopArgSwapped(d, section_name) ==
    IF section_name \in WholeDataSections THEN Get(d, section_name) ELSE d

\* the whole data for every section
LoopArgAlwaysWhole(d, section_name) == d

\* the first argument of the gen call of the section loop
LoopArg(d, section_name) ==
    IF section_name \in WholeDataSections THEN d ELSE Get(d, section_name)

\* a loop that gives up once the Template Filler has reported a mismatch
AfterGenAbort(mismatch) == IF mismatch THEN "done" ELSE "loop"

\* where the section loop goes after a gen call has returned
AfterGen(mismatch) == "loop"

\* the children of ClinicalDocument that come before and after the id block
HeaderBeforeId == <<"realmCode", "typeId", "templateId", "templateId">>

HeaderAfterId ==
    <<"code", "title", "effectiveTime", "confidentialityCode", "languageCode",
      "setId", "versionNumber", "recordTarget">>

Fixed(names) == [n \in 1..Len(names) |-> Node(names[n], Undefined)]

RECURSIVE Flatten(_)
Flatten(ss) == IF ss = <<>> THEN <<>> ELSE Head(ss) \o Flatten(Tail(ss))

\* doc.toString(): the names of the nodes in document order
RECURSIVE Serialize(_, _)
Serialize(ch, node) ==
    <<node>> \o Flatten([n \in 1..Len(ch[node]) |->
                 IF ch[node][n].node \in DOMAIN ch
                 THEN Serialize(ch, ch[node][n].node)
                 ELSE <<ch[node][n].node>>])

String(tag) == [t |-> "string", props |-> <<>>, tag |-> tag]

(***************************************************************************)
(* Inputs.                                                                 *)
(***************************************************************************)
RecognizedNames == {sectionNames[n] : n \in 1..12}

BodyKeys == RecognizedNames \cup {"extra"}

\* the data of one section; src tells the object it was put in
Slice(src, key) == Obj(<<Prop("identifiers", Tag(src, key))>>)

\* a section-name -> section-data object: the keys ks in this order, key ks[n]
\* holding a slice where present[n] and null elsewhere
Body(ks, present, src) ==
    [n \in 1..Len(ks) |-> Prop(ks[n], IF present[n] THEN Slice(src, ks[n]) ELSE Null)]

Distinct(ks) == \A m, n \in 1..Len(ks) : m # n => ks[m] # ks[n]

Metas ==
    {<<>>,
     <<Prop("meta", Obj(<<>>))>>,
     <<Prop("meta", Obj(<<Prop("identifiers", Tag("outer", "meta"))>>))>>}

\* section keys left in the outer record next to a data wrapper
Decoys ==
    [n \in 1..12 |-> Prop(sectionNames[n], Slice("outer", sectionNames[n]))]

\* the data key of a record: none, one that holds an object, one that holds null
Wrappers == {"none", "object", "null"}

\* the number of keys a meta m and a wrapper w leave for the sections: at most MaxKeys
\* keys in the record and the object it wraps together, the meta and the keys left
\* beside a wrapper not counted
KeysLeft(m, w) == IF w = "none" THEN MaxKeys - Len(m) ELSE MaxKeys - 1

Record(m, w, ks, present) ==
    CASE w = "none" -> Obj(m \o Body(ks, present, "outer"))
      [] w = "object" ->
            Obj(m \o <<Prop("data", Obj(Body(ks, present, "inner")))>> \o Decoys)
      [] w = "null" -> Obj(m \o <<Prop("data", Null)>> \o Body(ks, present, "outer"))

\* arguments of a single-section call
DirectNames == RecognizedNames \cup {"null", "unknown"}

DirectData(name) ==
    {Undefined, Null, Slice("outer", name), Obj(<<Prop(name, Slice("outer", name))>>)}

Existing == {<<>>, <<Node("existing", Undefined)>>}

(***************************************************************************)
(* State machine.                                                          *)
(***************************************************************************)
Nodes ==
    {"doc", "ClinicalDocument", "recordTarget", "patientRole", "component",
     "structuredBody", "parent"}

Init ==
    /\ moduleExports = Obj(<<>>)
    /\ pc = "load175"
    /\ passed = Undefined
    /\ record = Undefined
    /\ meta = Undefined
    /\ data = Undefined
    /\ children = [n \in Nodes |-> <<>>]
    /\ calls = <<>>
    /\ gens = <<>>
    /\ count_sections = 0
    /\ i = 0
    /\ result = Undefined
    /\ warnings = <<>>

MismatchChoices(cs) ==
    IF CanMismatch(cs) /\ Len(warnings) < MaxWarnings THEN BOOLEAN ELSE {FALSE}

\* the effect of the collaborator calls cs on the tree
Applied(ch, cs, mismatch) ==
    IF cs = <<>> THEN ch
    ELSE [ch EXCEPT ![cs[1].parent] = @ \o Emitted(cs[1], mismatch)]

\* module.exports.section = gen;
LoadSection ==
    /\ pc = "load175"
    /\ moduleExports' = Obj(Append(moduleExports.props, Prop("section", Fn("gen", <<>>))))
    /\ pc' = "load176"
    /\ UNCHANGED <<passed, record, meta, data, children, calls, gens, count_sections, i,
                   result, warnings>>

\* module.exports = genWholeCCDA;
LoadExports ==
    /\ pc = "load176"
    /\ moduleExports' = Fn("genWholeCCDA", <<>>)
    /\ pc' = "loaded"
    /\ UNCHANGED <<passed, record, meta, data, children, calls, gens, count_sections, i,
                   result, warnings>>

\* a caller calls the exported function on a record: var meta = data.meta; the unwrap
CallWhole ==
    /\ pc = "loaded"
    /\ moduleExports = Fn("genWholeCCDA", <<>>)
    /\ \E m \in Metas, w \in Wrappers :
        \E n \in 0..KeysLeft(m, w) :
            \E ks \in [1..n -> BodyKeys], present \in [1..n -> BOOLEAN] :
                /\ Distinct(ks)
                /\ LET r == Record(m, w, ks, present)
                   IN /\ passed' = r
                      /\ record' = r
                      /\ meta' = Get(r, "meta")
                      /\ data' = Unwrap(r)
    /\ pc' = "header"
    /\ UNCHANGED <<moduleExports, children, calls, gens, count_sections, i, result,
                   warnings>>

\* the header, down to var pr = xmlDoc.node('recordTarget').node('patientRole')
Header ==
    /\ pc = "header"
    /\ LET c == IdCall("ClinicalDocument", And(meta, Get(meta, "identifiers")))
       IN /\ calls' = Append(calls, c)
          /\ children' =
                [children EXCEPT
                    !["doc"] = <<Node("ClinicalDocument", Undefined)>>,
                    !["ClinicalDocument"] =
                        Fixed(HeaderBeforeId) \o Emitted(c, FALSE) \o Fixed(HeaderAfterId),
                    !["recordTarget"] = <<Node("patientRole", Undefined)>>]
    /\ pc' = "prId"
    /\ UNCHANGED <<moduleExports, passed, record, meta, data, gens, count_sections, i, result,
                   warnings>>

\* libCCDAGen.id(pr, data.demographics && data.demographics.identifiers);
PatientRoleId ==
    /\ pc = "prId"
    /\ LET c == IdCall("patientRole",
                       And(Get(data, "demographics"),
                           Get(Get(data, "demographics"), "identifiers")))
       IN /\ calls' = Append(calls, c)
          /\ children' = Applied(children, <<c>>, FALSE)
    /\ pc' = "demographics"
    /\ UNCHANGED <<moduleExports, passed, record, meta, data, gens, count_sections, i, result,
                   warnings>>

\* gen(data[sectionNames[1]], true, pr, sectionNames[1]);
Demographics ==
    /\ pc = "demographics"
    /\ LET name == sectionNames[DemographicsIndex]
           arg == Get(data, name)
           cs == gen(arg, TRUE, "patientRole", name)
       IN /\ gens' = Append(gens, GenEntry(arg, TRUE, "patientRole", name))
          /\ calls' = calls \o cs
          /\ children' = Applied(children, cs, FALSE)
    /\ pc' = "count"
    /\ UNCHANGED <<moduleExports, passed, record, meta, data, count_sections, i, result,
                   warnings>>

\* the loop that counts the sections defined
CountSections ==
    /\ pc = "count"
    /\ count_sections' = countSections(data.props)
    /\ pc' = "branch"
    /\ UNCHANGED <<moduleExports, passed, record, meta, data, children, calls, gens, i, result,
                   warnings>>

\* if (count_sections > 0) { var sb = xmlDoc.node('component').node('structuredBody');
CreateBody ==
    /\ pc = "branch"
    /\ count_sections > 0
    /\ children' =
          [children EXCEPT
              !["ClinicalDocument"] = Append(@, Node("component", Undefined)),
              !["component"] = <<Node("structuredBody", Undefined)>>]
    /\ i' = LoopStart
    /\ pc' = "loop"
    /\ UNCHANGED <<moduleExports, passed, record, meta, data, calls, gens, count_sections,
                   result, warnings>>

\* count_sections is 0: the function ends without a return statement
ReturnUndefined ==
    /\ pc = "branch"
    /\ ~(count_sections > 0)
    /\ result' = Undefined
    /\ pc' = "done"
    /\ UNCHANGED <<moduleExports, passed, record, meta, data, children, calls, gens,
                   count_sections, i, warnings>>

\* one iteration of the section loop
LoopStep ==
    /\ pc = "loop"
    /\ i < sectionNamesLength
    /\ LET name == sectionNames[i]
           arg == LoopArg(data, name)
           cs == gen(arg, TRUE, "structuredBody", name)
       IN \E mismatch \in MismatchChoices(cs) :
            /\ gens' = Append(gens, GenEntry(arg, TRUE, "structuredBody", name))
            /\ calls' = calls \o cs
            /\ children' = Applied(children, cs, mismatch)
            /\ warnings' = IF mismatch THEN Append(warnings, name) ELSE warnings
            /\ pc' = AfterGen(mismatch)
    /\ i' = i + 1
    /\ UNCHANGED <<moduleExports, passed, record, meta, data, count_sections, result>>

\* return doc.toString();
ReturnString ==
    /\ pc = "loop"
    /\ ~(i < sectionNamesLength)
    /\ result' = String(Serialize(children, "doc"))
    /\ pc' = "done"
    /\ UNCHANGED <<moduleExports, passed, record, meta, data, children, calls, gens,
                   count_sections, i, warnings>>

\* a caller inside the module prepares a single-section call gen(data, CCD, xmlDoc, name)
CallGen ==
    /\ pc = "loaded"
    /\ \E name \in DirectNames, CCD \in BOOLEAN, pre \in Existing :
        \E d \in DirectData(name) :
            /\ data' = d
            /\ gens' = <<GenEntry(d, CCD, "parent", name)>>
            /\ children' = [children EXCEPT !["parent"] = pre]
    /\ pc' = "gen"
    /\ UNCHANGED <<moduleExports, passed, record, meta, calls, count_sections, i, result,
                   warnings>>

\* the body of gen in a single-section call
GenSection ==
    /\ pc = "gen"
    /\ LET g == gens[Len(gens)]
           cs == gen(g.data, g.CCD, g.xmlDoc, g.section_name)
       IN /\ \E mismatch \in MismatchChoices(cs) :
                /\ calls' = calls \o cs
                /\ children' = Applied(children, cs, mismatch)
                /\ warnings' =
                      IF mismatch THEN Append(warnings, g.section_name) ELSE warnings
          /\ result' = genReturn(g.data, g.xmlDoc, g.section_name)
    /\ pc' = "gen_done"
    /\ UNCHANGED <<moduleExports, passed, record, meta, data, gens, count_sections, i>>

\* a single-section call on a slice of the record just assembled, into a node of its own
GenAfterWhole ==
    /\ pc = "done"
    /\ \E name \in Keys(data) \cap RecognizedNames :
        LET d == Get(data, name)
            cs == gen(d, TRUE, "parent", name)
        IN /\ gens' = Append(gens, GenEntry(d, TRUE, "parent", name))
           /\ \E mismatch \in MismatchChoices(cs) :
                /\ calls' = calls \o cs
                /\ children' = Applied(children, cs, mismatch)
                /\ warnings' = IF mismatch THEN Append(warnings, name) ELSE warnings
           /\ result' = genReturn(d, "parent", name)
    /\ pc' = "gen_done"
    /\ UNCHANGED <<moduleExports, passed, record, meta, data, count_sections, i>>

Next ==
    \/ LoadSection
    \/ LoadExports
    \/ CallWhole
    \/ Header
    \/ PatientRoleId
    \/ Demographics
    \/ CountSections
    \/ CreateBody
    \/ ReturnUndefined
    \/ LoopStep
    \/ ReturnString
    \/ CallGen
    \/ GenSection
    \/ GenAfterWhole

Spec == Init /\ [][Next]_vars

(***************************************************************************)
(* Vocabulary of the properties.                                           *)
(***************************************************************************)
\* genWholeCCDA has been called
WholeMode == passed.t = "object"

\* genWholeCCDA has returned (a single-section call may have followed)
Returned == WholeMode /\ pc \in {"done", "gen_done"}

\* the component/structuredBody nodes of the document
BodyNodes ==
    LET IsComponent(n) == n.node = "component"
    IN Len(SelectSeq(children["ClinicalDocument"], IsComponent))

BodyCreated == BodyNodes > 0

CanonicalOrder ==
    <<"allergies", "encounters", "immunizations", "medications", "payers",
      "plan_of_care", "problems", "procedures", "results", "social_history", "vitals">>

TemplateSections ==
    {"allergies", "encounters", "immunizations", "medications", "plan_of_care",
     "problems", "procedures"}

BespokeBodySections == {"payers", "results", "social_history", "vitals"}

\* the gen invocations of the section loop
LoopGens ==
    LET InLoop(g) == g.xmlDoc = "structuredBody" IN SelectSeq(gens, InLoop)

\* the handler calls: every collaborator call but those of the id block generator
HandlerCalls ==
    LET IsHandler(c) == c.fn # "libCCDAGen.id" IN SelectSeq(calls, IsHandler)

\* the handler calls against node
HandlerCallsOn(node) ==
    LET On(c) == c.parent = node IN SelectSeq(HandlerCalls, On)

GenNames(gs) == [n \in 1..Len(gs) |-> gs[n].section_name]

CallSections(cs) == [n \in 1..Len(cs) |-> CallSection(cs[n])]

\* a call without the node it was made against
Strip(c) == [fn |-> c.fn, template |-> c.template, data |-> c.data, CCD |-> c.CCD]

Stripped(cs) == [n \in 1..Len(cs) |-> Strip(cs[n])]

\* the object the section lookups must read
Source == IF Truthy(Get(passed, "data")) THEN Get(passed, "data") ELSE passed

(***************************************************************************)
(* C1: whenever a structuredBody is created, the section loop invokes gen  *)
(* exactly once per body section, in the order allergies, encounters,      *)
(* immunizations, medications, payers, plan_of_care, problems, procedures, *)
(* results, social_history, vitals; the handler calls that result come in  *)
(* that order whatever the key order of the record, and demographics is    *)
(* not dispatched inside the loop.                                         *)
(***************************************************************************)
C1_CanonicalDispatchOrder ==
    (WholeMode /\ BodyCreated) =>
        LET gs == LoopGens
            k == Len(gs)
            src == Source
            Handled(name) == name \in TemplateSections \/ Truthy(Get(src, name))
        IN /\ k <= Len(CanonicalOrder)
           /\ GenNames(gs) = SubSeq(CanonicalOrder, 1, k)
           /\ Returned => k = Len(CanonicalOrder)
           /\ CallSections(HandlerCallsOn("structuredBody"))
                = SelectSeq(SubSeq(CanonicalOrder, 1, k), Handled)

\* a record that lists vitals before allergies has been assembled
C1_Witness ==
    /\ pc = "done"
    /\ BodyCreated
    /\ Len(data.props) = 2
    /\ data.props[1].k = "vitals" /\ Truthy(data.props[1].v)
    /\ data.props[2].k = "allergies" /\ Truthy(data.props[2].v)
    /\ CallSections(HandlerCallsOn("structuredBody"))
         = <<"allergies", "encounters", "immunizations", "medications", "plan_of_care",
             "problems", "procedures", "vitals">>

LoopDispatch(name) ==
    /\ WholeMode
    /\ pc = "loop"
    /\ Len(gens') = Len(gens) + 1
    /\ gens'[Len(gens')].section_name = name

\* this step is gen in a single-section call without data
DirectAbsent == pc = "gen" /\ ~Truthy(gens[Len(gens)].data)

DirectNoop ==
    DirectAbsent =>
        /\ calls' = calls
        /\ children' = children
        /\ result' = [t |-> "node", props |-> <<>>, tag |-> <<"parent">>]

ScenarioRecord ==
    Obj(<<Prop("meta", Obj(<<Prop("identifiers", Tag("outer", "meta"))>>)),
          Prop("demographics", Slice("outer", "demographics"))>>)

(***************************************************************************)
(* C4: the record {meta: {identifiers}, demographics: {...}}, flat, with   *)
(* no other key, is assembled into header + patientRole + demographics     *)
(* fragment without a component/structuredBody node.                       *)
(***************************************************************************)
C4_NoBodyForDemographicsOnly ==
    (pc = "done" /\ passed = ScenarioRecord) =>
        /\ children["patientRole"]
             = <<Node("id", Tag("outer", "demographics")),
                 Node("demographics", Slice("outer", "demographics"))>>
        /\ ~BodyCreated
        /\ children["component"] = <<>>

HasOtherKey == \E k \in Keys(Source) : k # "demographics"

IdCallsOn(node) ==
    LET IsId(c) == c.fn = "libCCDAGen.id" /\ c.parent = node IN SelectSeq(calls, IsId)

DemographicsCalls ==
    LET IsDemographics(c) == c.fn = "./lib/demographics.js" IN SelectSeq(calls, IsDemographics)

\* the calls on patientRole come first among the calls after the header's
PatientRoleFirst ==
    \A n \in 1..Len(calls) :
        calls[n].parent = "structuredBody" =>
            \A m \in n..Len(calls) : calls[m].parent # "patientRole"

AfterDemographics == WholeMode /\ pc \in {"count", "branch", "loop", "done", "gen_done"}

(***************************************************************************)
(* C6 as amended: whole-document assembly calls the id block generator on  *)
(* the patientRole node exactly once for every record; it calls the        *)
(* demographics handler, against patientRole, exactly once when the        *)
(* unwrapped record has demographics data and not at all when it has none; *)
(* both come before every body section.                                    *)
(***************************************************************************)
C6_OneIdBlockDemographicsIfPresent ==
    AfterDemographics =>
        /\ Len(IdCallsOn("patientRole")) = 1
        /\ Len(HandlerCallsOn("patientRole")) =
              (IF Truthy(Get(Source, "demographics")) THEN 1 ELSE 0)
        /\ LET cs == HandlerCallsOn("patientRole")
           IN \A n \in 1..Len(cs) :
                 Strip(cs[n]) = [fn |-> "./lib/demographics.js", template |-> "",
                                 data |-> Get(Source, "demographics"), CCD |-> TRUE]
        /\ LET ds == DemographicsCalls
           IN \A n \in 1..Len(ds) : ds[n].parent # "structuredBody"
        /\ PatientRoleFirst
        /\ gens[1].section_name = "demographics" /\ gens[1].xmlDoc = "patientRole"

\* C6 as stated: the demographics handler is called exactly once for every record
C6_AsStated ==
    AfterDemographics =>
        /\ Len(IdCallsOn("patientRole")) = 1
        /\ Len(HandlerCallsOn("patientRole")) = 1
        /\ PatientRoleFirst
        /\ gens[1].section_name = "demographics" /\ gens[1].xmlDoc = "patientRole"

\* an assembly of demographics and body sections
C6_Witness ==
    /\ pc = "done"
    /\ Truthy(Get(Source, "demographics"))
    /\ Len(HandlerCallsOn("patientRole")) = 1
    /\ Len(HandlerCallsOn("structuredBody")) = 8

\* a single-section call has followed the assembly of the same record
Compared == WholeMode /\ pc = "gen_done"

ComparedSection == gens[Len(gens)].section_name

\* the calls the assembly made for section X
WholeCallsFor(X) ==
    LET For(c) == c.parent # "parent" /\ CallSection(c) = X IN SelectSeq(HandlerCalls, For)

\* the nodes the assembly appended for section X
WholeFragmentsFor(X) ==
    LET For(n) == n.node = X
    IN SelectSeq(children[IF X = "demographics" THEN "patientRole" ELSE "structuredBody"],
                 For)

SameCallsAndFragments(X) ==
    /\ Stripped(HandlerCallsOn("parent")) = Stripped(WholeCallsFor(X))
    /\ children["parent"] = WholeFragmentsFor(X)

Loaded == pc \notin {"load175", "load176"}

(***************************************************************************)
(* C8: once the module is loaded its exported value gives both entry       *)
(* points: genWholeCCDA, and gen as the member `section`.                  *)
(***************************************************************************)
C8_BothEntryPointsExported ==
    Loaded =>
        /\ moduleExports.t = "function"
        /\ moduleExports.tag = <<"genWholeCCDA">>
        /\ Get(moduleExports, "section") = Fn("gen", <<>>)

\* the Template Filler reported a mismatch during the section loop
MismatchInLoop ==
    /\ WholeMode
    /\ pc \in {"loop", "done"}
    /\ warnings # <<>>

Wrapped == Truthy(Get(passed, "data"))

(***************************************************************************)
(* C10: with a truthy data wrapper every section lookup of whole-document  *)
(* assembly (the demographics identifiers and slice, the count of the keys *)
(* other than demographics, every dispatch of the section loop) reads the  *)
(* wrapped object, and the header's id block is built from the outer       *)
(* record's meta.identifiers; without a wrapper all of them read the       *)
(* record itself. The record is not mutated.                               *)
(***************************************************************************)
C10_LookupsReadTheUnwrappedObject ==
    WholeMode =>
        LET src == Source
            demographics == Get(src, "demographics")
            outerMeta == Get(passed, "meta")
            gs == LoopGens
            cs == HandlerCalls
        IN /\ record = passed
           /\ pc # "header" =>
                 /\ Len(IdCallsOn("ClinicalDocument")) = 1
                 /\ IdCallsOn("ClinicalDocument")[1].data
                       = And(outerMeta, Get(outerMeta, "identifiers"))
           /\ pc \notin {"header", "prId"} =>
                 IdCallsOn("patientRole")[1].data
                       = And(demographics, Get(demographics, "identifiers"))
           /\ AfterDemographics =>
                 /\ gens[1].section_name = "demographics"
                 /\ gens[1].data = demographics
           /\ pc \in {"branch", "loop", "done", "gen_done"} =>
                 count_sections = Cardinality(Keys(src) \ {"demographics"})
           /\ \A n \in 1..Len(gs) :
                 gs[n].data = src \/ gs[n].data = Get(src, gs[n].section_name)
           /\ \A n \in 1..Len(cs) :
                 cs[n].data = src \/ cs[n].data = Get(src, CallSection(cs[n]))

\* a wrapped record with a meta: payers was generated from the wrapped object
C10_Witness ==
    /\ pc = "done"
    /\ Wrapped
    /\ Truthy(Get(Get(passed, "meta"), "identifiers"))
    /\ Truthy(Get(passed, "payers"))
    /\ Len(HandlerCallsOn("structuredBody")) = 8
    /\ Stripped(HandlerCallsOn("structuredBody"))[5]
         = [fn |-> "./lib/payers.js", template |-> "",
            data |-> Slice("inner", "payers"), CCD |-> TRUE]
    /\ calls[1].data = Tag("outer", "meta")

====
